---- MODULE Spec2Model ----
(***************************************************************************)
(* A model of bch_stratum_inspector.py: the Stratum session of query_pool, *)
(* the receive loop _stratum_recv, main's all-pools loop, and the raw      *)
(* transaction parser CoinbaseTxParser.                                    *)
(*                                                                         *)
(* Conventions.  A hex string is a sequence of nibbles 0..15, a byte       *)
(* string a sequence of 0..255.  An unsigned integer read from the wire is *)
(* a Num: three limbs of 24 bits, least significant first, so that the     *)
(* 64-bit values struct.unpack produces are kept at their full width.      *)
(* A Python exception is a result record whose err field is TRUE.          *)
(***************************************************************************)
EXTENDS Integers, Sequences, FiniteSets, TLC

VARIABLES
    mode,              \* main: "single" (a pool was named) or "all"
    config,            \* the module's WORKER, PASSWORD, DEBUG and POOLS
    pool,              \* main: index into POOLS of the pool being queried
    ok,                \* main: count of query_pool calls that returned True
    fail,              \* main: count of query_pool calls that returned False
    pc,                \* position of the control flow in main / query_pool
    sock,              \* the socket of query_pool: "none", "open", "closed"
    sent,              \* the requests written to the socket, in order
    buf,               \* _stratum_recv: bytes received and not yet split
    results,           \* _stratum_recv: the frames parsed in this call
    responses,         \* query_pool: the list the last _stratum_recv returned
    extranonce1,       \* query_pool: None or the recorded hex string
    extranonce2_size,  \* query_pool: None or the recorded size
    notify,            \* query_pool: None or the job notification frame
    pool_diff,         \* query_pool: None or the difficulty last notified
    auth_rejected,     \* query_pool: an authorize rejection was dispatched
    attempt,           \* query_pool: the polling loop's counter
    coinbase_hex,      \* query_pool: None or the assembled coinbase hex
    tx,                \* query_pool: None or the decoded transaction
    ret,               \* query_pool: "none" while running, else "True" / "False"
    inp,               \* parser check: the byte string handed to parse
    out                \* parser check: None or the result of parse

vars == <<mode, config, pool, ok, fail, pc, sock, sent, buf, results, responses,
          extranonce1, extranonce2_size, notify, pool_diff, auth_rejected,
          attempt, coinbase_hex, tx, ret, inp, out>>

\* Python's None and a value that is not None: the empty and the
\* one-element sequence.
None == <<>>
Some(x) == <<x>>

Min(a, b) == IF a < b THEN a ELSE b

(***************************************************************************)
(* Integers off the wire                                                   *)
(***************************************************************************)

\* Byte i (1-based) of bs, 0 beyond its end.
ByteAt(bs, i) == IF i <= Len(bs) THEN bs[i] ELSE 0

\* The little-endian value of bs (at most 8 bytes) as three 24-bit limbs.
LE(bs) ==
    << ByteAt(bs, 1) + 256 * ByteAt(bs, 2) + 65536 * ByteAt(bs, 3),
       ByteAt(bs, 4) + 256 * ByteAt(bs, 5) + 65536 * ByteAt(bs, 6),
       ByteAt(bs, 7) + 256 * ByteAt(bs, 8) >>

NumOf(n) == <<n, 0, 0>>

\* A Num that fits one limb is used as a length or a count directly.
IsSmall(v) == v[2] = 0 /\ v[3] = 0

\* i < v, for a small natural i.
NumGt(v, i) == ~IsSmall(v) \/ v[1] > i

(***************************************************************************)
(* CoinbaseTxParser                                                        *)
(***************************************************************************)

\* bytes.fromhex: two hex digits a byte; ValueError on an odd length.
fromhex(h) ==
    IF Len(h) % 2 = 1
    THEN [err |-> TRUE, bytes |-> <<>>]
    ELSE [err |-> FALSE,
          bytes |-> [i \in 1 .. (Len(h) \div 2) |-> 16 * h[2 * i - 1] + h[2 * i]]]

\* bytes.hex(): the two hex digits of each byte, high digit first.
hex(bs) ==
    [i \in 1 .. 2 * Len(bs) |->
        IF i % 2 = 1 THEN bs[(i + 1) \div 2] \div 16 ELSE bs[i \div 2] % 16]

\* _read with a small n: the slice data[pos:pos+n], which Python cuts at the
\* end of the buffer without raising, and the cursor advanced by n regardless.
_read(d, pos, n) ==
    [chunk |-> SubSeq(d, pos + 1, Min(pos + n, Len(d))), pos |-> pos + n]

\* _read(script_len) for a length off the wire.  A length beyond one limb
\* exceeds any buffer: the slice is the rest of the buffer and the cursor
\* ends past it (Len(d) + 1 stands for every such cursor).
_read_num(d, pos, n) ==
    IF IsSmall(n)
    THEN _read(d, pos, n[1])
    ELSE [chunk |-> SubSeq(d, pos + 1, Len(d)), pos |-> Len(d) + 1]

\* struct.unpack(fmt, chunk) of an unsigned format of `width` bytes:
\* struct.error unless the chunk has exactly that many bytes.
\* r is what _read returned; the cursor it left is carried along.
unpack_mut_lenient(r, width) ==
    [err |-> FALSE, v |-> LE(r.chunk), pos |-> r.pos]

unpack(r, width) ==
    IF Len(r.chunk) # width
    THEN [err |-> TRUE, v |-> NumOf(0), pos |-> r.pos]
    ELSE [err |-> FALSE, v |-> LE(r.chunk), pos |-> r.pos]

_u32(d, pos) == unpack(_read(d, pos, 4), 4)

_u64(d, pos) == unpack(_read(d, pos, 8), 8)

\* The value of the 32 bits of u read as two's complement ('<i').
Signed(u) ==
    [u EXCEPT !.v = IF u.err THEN 0
                    ELSE u.v[1] + 16777216
                         * (IF u.v[2] >= 128 THEN u.v[2] - 256 ELSE u.v[2])]

_i32(d, pos) == Signed(unpack(_read(d, pos, 4), 4))

\* _varint: data[pos] raises IndexError past the end; 0xfd, 0xfe and 0xff
\* announce a 2-, 4- and 8-byte little-endian value.
VarintWidth_mut_fd4(n) == IF n = 253 THEN 4 ELSE IF n = 254 THEN 4 ELSE 8

VarintWidth(n) == IF n = 253 THEN 2 ELSE IF n = 254 THEN 4 ELSE 8

_varint(d, pos) ==
    IF pos >= Len(d)
    THEN [err |-> TRUE, v |-> NumOf(0), pos |-> pos]
    ELSE IF d[pos + 1] < 253
    THEN [err |-> FALSE, v |-> NumOf(d[pos + 1]), pos |-> pos + 1]
    ELSE unpack(_read(d, pos + 1, VarintWidth(d[pos + 1])),
                VarintWidth(d[pos + 1]))

\* The parser at one point of parse (lines 183-212): the cursor self._pos,
\* the statement to run next, the loop counter, the fields read so far.
ParseStart ==
    [phase |-> "version", pos |-> 0, count |-> NumOf(0), k |-> 0,
     version |-> 0, inputs |-> <<>>, outputs |-> <<>>, locktime |-> NumOf(0),
     prev_hash |-> <<>>, prev_index |-> NumOf(0), value |-> NumOf(0),
     script_len |-> NumOf(0)]

\* The reader r raised: parse ends with its exception.
Failed(st, r) == [st EXCEPT !.phase = "error", !.pos = r.pos]

\* Reader r returned: the cursor moves and the next statement is `phase`.
Go(st, r, phase) == [st EXCEPT !.phase = phase, !.pos = r.pos]

\* tx['version'] = self._i32()
StepVersion(d, st, r) ==
    IF r.err THEN Failed(st, r)
    ELSE [Go(st, r, "in_count") EXCEPT !.version = r.v]

\* in_count = self._varint() / out_count = self._varint()
StepCount(d, st, r, phase) ==
    IF r.err THEN Failed(st, r)
    ELSE [Go(st, r, phase) EXCEPT !.count = r.v, !.k = 0]

\* for _ in range(count): another pass, or the statement after the loop.
StepLoop(st, body, after) ==
    [st EXCEPT !.phase = IF NumGt(st.count, st.k) THEN body ELSE after]

\* prev_hash = self._read(32).hex()
StepPrevHash(d, st, r) ==
    [Go(st, r, "prev_index") EXCEPT !.prev_hash = hex(r.chunk)]

\* prev_index = self._u32()
StepPrevIndex(d, st, r) ==
    IF r.err THEN Failed(st, r)
    ELSE [Go(st, r, "in_script_len") EXCEPT !.prev_index = r.v]

\* script_len = self._varint()
StepScriptLen(d, st, r, phase) ==
    IF r.err THEN Failed(st, r)
    ELSE [Go(st, r, phase) EXCEPT !.script_len = r.v]

\* script_sig = self._read(script_len); sequence = self._u32();
\* tx['inputs'].append(...)
StepScriptSig(d, st, s, q) ==
    IF q.err THEN Failed(st, q)
    ELSE [Go(st, q, "in_loop") EXCEPT
            !.k = st.k + 1,
            !.inputs = Append(st.inputs,
                [prev_hash |-> st.prev_hash, prev_index |-> st.prev_index,
                 scriptSig |-> s.chunk, sequence |-> q.v])]

\* value = self._u64()
StepValue(d, st, r) ==
    IF r.err THEN Failed(st, r)
    ELSE [Go(st, r, "out_script_len") EXCEPT !.value = r.v]

\* script_pubkey = self._read(script_len); tx['outputs'].append(...)
StepScriptPubKey(d, st, s) ==
    [Go(st, s, "out_loop") EXCEPT
        !.k = st.k + 1,
        !.outputs = Append(st.outputs,
            [value |-> st.value, scriptPubKey |-> s.chunk])]

\* tx['locktime'] = self._u32(); return tx
StepLocktime(d, st, r) ==
    IF r.err THEN Failed(st, r)
    ELSE [Go(st, r, "done") EXCEPT !.locktime = r.v]

\* The statement of parse that st.phase names, run on the bytes d.
ParseStep(d, st) ==
    CASE st.phase = "version"        -> StepVersion(d, st, _i32(d, st.pos))
      [] st.phase = "in_count"       -> StepCount(d, st, _varint(d, st.pos), "in_loop")
      [] st.phase = "in_loop"        -> StepLoop(st, "prev_hash", "out_count")
      [] st.phase = "prev_hash"      -> StepPrevHash(d, st, _read(d, st.pos, 32))
      [] st.phase = "prev_index"     -> StepPrevIndex(d, st, _u32(d, st.pos))
      [] st.phase = "in_script_len"  -> StepScriptLen(d, st, _varint(d, st.pos), "in_script")
      [] st.phase = "in_script"      ->
            StepScriptSig(d, st, _read_num(d, st.pos, st.script_len),
                          _u32(d, _read_num(d, st.pos, st.script_len).pos))
      [] st.phase = "out_count"      -> StepCount(d, st, _varint(d, st.pos), "out_loop")
      [] st.phase = "out_loop"       -> StepLoop(st, "value", "locktime")
      [] st.phase = "value"          -> StepValue(d, st, _u64(d, st.pos))
      [] st.phase = "out_script_len" -> StepScriptLen(d, st, _varint(d, st.pos), "out_script")
      [] st.phase = "out_script"     ->
            StepScriptPubKey(d, st, _read_num(d, st.pos, st.script_len))
      [] st.phase = "locktime"       -> StepLocktime(d, st, _u32(d, st.pos))

RECURSIVE ParseRun(_, _)
ParseRun(d, st) ==
    IF st.phase \in {"done", "error"} THEN st ELSE ParseRun(d, ParseStep(d, st))

NoTx == [version |-> 0, inputs |-> <<>>, outputs |-> <<>>, locktime |-> NumOf(0)]

\* The outcome of parse from its last point: an exception, or the
\* transaction returned and the cursor it ended at.
ParseResult(st) ==
    IF st.phase = "error"
    THEN [err |-> TRUE, pos |-> st.pos, tx |-> NoTx]
    ELSE [err |-> FALSE, pos |-> st.pos,
          tx |-> [version |-> st.version, inputs |-> st.inputs,
                  outputs |-> st.outputs, locktime |-> st.locktime]]

\* CoinbaseTxParser(...).parse() over the bytes d.
parse(d) == ParseResult(ParseRun(d, ParseStart))

(***************************************************************************)
(* Serialization (the inverse the round-trip property is stated against)   *)
(***************************************************************************)

\* Byte i (1-based, least significant first) of a Num.
NumByte(v, i) ==
    LET limb  == v[((i - 1) \div 3) + 1]
        shift == (i - 1) % 3
    IN  (limb \div (IF shift = 0 THEN 1 ELSE IF shift = 1 THEN 256 ELSE 65536)) % 256

\* The little-endian encoding of a Num on `width` bytes.
pack(v, width) == [i \in 1 .. width |-> NumByte(v, i)]

\* The little-endian two's-complement encoding of a signed 32-bit integer.
pack_i32(n) ==
    << n % 256, (n \div 256) % 256, (n \div 65536) % 256,
       (n \div 16777216) % 256 >>

\* The shortest varint of a Num: one byte below 0xfd, else 0xfd, 0xfe or
\* 0xff and the value on 2, 4 or 8 bytes.
WriteVarint(v) ==
    IF IsSmall(v) /\ v[1] < 253 THEN <<v[1]>>
    ELSE IF IsSmall(v) /\ v[1] <= 65535 THEN <<253>> \o pack(v, 2)
    ELSE IF v[3] = 0 /\ v[2] <= 255 THEN <<254>> \o pack(v, 4)
    ELSE <<255>> \o pack(v, 8)

SerializeInput(i) ==
    fromhex(i.prev_hash).bytes \o pack(i.prev_index, 4)
        \o WriteVarint(NumOf(Len(i.scriptSig))) \o i.scriptSig
        \o pack(i.sequence, 4)

SerializeOutput(o) ==
    pack(o.value, 8) \o WriteVarint(NumOf(Len(o.scriptPubKey)))
        \o o.scriptPubKey

RECURSIVE Concat(_)
Concat(ss) == IF ss = <<>> THEN <<>> ELSE Head(ss) \o Concat(Tail(ss))

Serialize(t) ==
    pack_i32(t.version)
        \o WriteVarint(NumOf(Len(t.inputs)))
        \o Concat([k \in 1 .. Len(t.inputs) |-> SerializeInput(t.inputs[k])])
        \o WriteVarint(NumOf(Len(t.outputs)))
        \o Concat([k \in 1 .. Len(t.outputs) |-> SerializeOutput(t.outputs[k])])
        \o pack(t.locktime, 4)

(***************************************************************************)
(* The byte strings parse is checked on                                    *)
(***************************************************************************)

\* Bounds of the transactions built for the parser check.
MaxIns == 1
MaxOuts == 1

Zeros(n) == [i \in 1 .. n |-> 0]

U32Max == <<16777215, 255, 0>>

\* Unlock and output scripts: empty, OP_RETURN alone, a height push.
SmallScripts == { <<>>, <<106>>, <<3, 34, 12, 10>> }

\* Scripts whose length sits on the one-byte / three-byte varint boundary.
EdgeScripts == { Zeros(252), Zeros(253) }

SeqsUpTo(S, n) == UNION { [1 .. k -> S] : k \in 0 .. n }

Amounts == { NumOf(625000000 % 16777216), <<0, 0, 32768>> }

TxsOver(versions, scripts, values) ==
    [ version  : versions,
      inputs   : SeqsUpTo([ prev_hash : {hex(Zeros(32))},
                            prev_index : {U32Max},
                            scriptSig : scripts,
                            sequence : {U32Max} ], MaxIns),
      outputs  : SeqsUpTo([ value : values, scriptPubKey : scripts ], MaxOuts),
      locktime : {NumOf(0)} ]

Prefix(bs, n) == SubSeq(bs, 1, n)

\* bs with byte i replaced by b.
Corrupt(bs, i, b) == [bs EXCEPT ![i] = b]

WellFormedInputs ==
    { [kind |-> "wellformed", bytes |-> Serialize(t)] :
        t \in TxsOver({1, -1}, SmallScripts, Amounts)
               \cup TxsOver({1}, EdgeScripts, Amounts) }

PrefixesOf(bs) ==
    { [kind |-> "truncated", bytes |-> Prefix(bs, n)] : n \in 0 .. Len(bs) - 1 }

TruncatedInputs ==
    UNION { PrefixesOf(Serialize(t)) :
            t \in TxsOver({1}, { <<>>, <<3, 34, 12, 10>> }, { <<0, 0, 32768>> }) }

\* A count or length byte (or any other) overwritten by a larger one.
CorruptionsOf(bs) ==
    { [kind |-> "corrupt", bytes |-> Corrupt(bs, i, b)] :
        i \in 5 .. Len(bs), b \in {9, 254, 255} }

CorruptInputs ==
    UNION { CorruptionsOf(Serialize(t)) :
            t \in TxsOver({1}, { <<106>> }, { <<0, 0, 32768>> }) }

\* Varints alone, at the values where the encoding changes width.
VarintInputs ==
    { [kind |-> "varint", bytes |-> bs] :
        bs \in { <<0>>, <<252>>, <<253, 253, 0>>, <<253, 255, 255>>,
                 <<254, 0, 0, 1, 0>>, <<254, 255, 255, 255, 255>>,
                 <<255, 0, 0, 0, 0, 1, 0, 0, 0>> } }

ParserInputs ==
    WellFormedInputs \cup TruncatedInputs \cup CorruptInputs \cup VarintInputs

NoInput == [kind |-> "none", bytes |-> <<>>]

(***************************************************************************)
(* Stratum frames                                                          *)
(***************************************************************************)

\* A parsed JSON line, as the keys query_pool looks at: id (0 when absent or
\* null), method ("" when absent), result, error (whether truthy), params.
\* isdict is FALSE for a JSON value that is no object (a number, a list).
NoResult == [t |-> "null", en1 |-> <<>>, size |-> 0]

Frame(id, method, result, error, params) ==
    [isdict |-> TRUE, id |-> id, method |-> method, result |-> result,
     error |-> error, params |-> params]

\* {"id":1,"result":[[...], en1, size],"error":null}
SubOk(en1, size) ==
    Frame(1, "", [t |-> "list", en1 |-> en1, size |-> size], FALSE, "")
\* {"id":1,"result":null,"error":[20,"...",null]}
SubErr == Frame(1, "", NoResult, TRUE, "")
\* {"id":1,"result":[[...], en1, size],"error":[20,"...",null]}
SubBoth(en1, size) ==
    Frame(1, "", [t |-> "list", en1 |-> en1, size |-> size], TRUE, "")
\* {"id":1,"result":[[...]],"error":null}: a result with no extra-nonce
SubBad == Frame(1, "", [t |-> "short", en1 |-> <<>>, size |-> 0], FALSE, "")
\* {"id":null,"method":"mining.notify","params":[...]} for the job named j
Notify(j) == Frame(0, "mining.notify", NoResult, FALSE, j)
\* {"id":null,"method":"mining.set_difficulty","params":[d]}
SetDiff == Frame(0, "mining.set_difficulty", NoResult, FALSE, "diff")
\* {"id":2,"result":true,"error":null}
AuthOk == Frame(2, "", [t |-> "true", en1 |-> <<>>, size |-> 0], FALSE, "")
\* {"id":2,"result":false,"error":[24,"unauthorized",null]}
AuthRej == Frame(2, "", [t |-> "false", en1 |-> <<>>, size |-> 0], TRUE, "")
\* a line such as 5 or []: valid JSON, no object
NonDict == [isdict |-> FALSE, id |-> 0, method |-> "", result |-> NoResult,
            error |-> FALSE, params |-> ""]

\* Python truthiness of r.get('result').
Truthy(result) == result.t \in {"true", "list", "short"}

\* The two extra-nonce assignments the pools hand out: (hex string, size).
EN_A == <<10, 11>>
EN_B == <<1, 2, 3, 4>>

(***************************************************************************)
(* Job notifications                                                       *)
(***************************************************************************)

\* coinbase_part1: version 1, one input (null prev_hash, index ffffffff),
\* an 8-byte unlock script opening with the height push 03 22 0c 0a.
CB1 == hex(<<1, 0, 0, 0, 1>> \o Zeros(32) \o <<255, 255, 255, 255>>
           \o <<8, 3, 34, 12, 10>>)

\* coinbase_part2: the pool tag closing the unlock script, the sequence,
\* one output (value, 1-byte script 6a), the locktime.
CB2(tag, value) ==
    hex(tag \o <<255, 255, 255, 255>> \o <<1>> \o pack(value, 8)
        \o <<1, 106>> \o <<0, 0, 0, 0>>)

\* The params of the mining.notify frame of each job: their number, the two
\* coinbase parts (params[2], params[3]) and the compact target (params[6]).
Job(j) ==
    CASE j = "J1" -> [n |-> 9, cb1 |-> CB1, cb2 |-> CB2(<<47, 80>>, <<0, 0, 32768>>),
                      nbits |-> <<1, 8, 0, 4, 8, 6, 15, 11>>]
      [] j = "J2" -> [n |-> 9, cb1 |-> CB1, cb2 |-> CB2(<<47, 81>>, NumOf(5000)),
                      nbits |-> <<1, 8, 0, 4, 8, 6, 15, 11>>]
      \* the coinbase cut one byte short
      [] j = "JT" -> [n |-> 9, cb1 |-> CB1,
                      cb2 |-> Prefix(CB2(<<47, 80>>, NumOf(5000)), 40),
                      nbits |-> <<1, 8, 0, 4, 8, 6, 15, 11>>]
      \* a compact target whose exponent is below 3
      [] j = "JB" -> [n |-> 9, cb1 |-> CB1, cb2 |-> CB2(<<47, 80>>, NumOf(5000)),
                      nbits |-> <<0, 2, 0, 0, 8, 0, 0, 0>>]
      \* params with three elements only
      [] j = "JM" -> [n |-> 3, cb1 |-> CB1, cb2 |-> <<>>,
                      nbits |-> <<>>]

\* nbits_to_difficulty, as far as query_pool depends on it: the shift by
\* 8 * (exp - 3) raises ValueError for exp < 3; a target <= 0 gives "N/A".
nbits_to_difficulty(h) ==
    LET exp   == 16 * h[1] + h[2]
        low   == 1048576 * h[3] + 65536 * h[4] + 4096 * h[5]
                 + 256 * h[6] + 16 * h[7] + h[8]
        coeff == IF low >= 8388608 THEN -(low % 8388608) ELSE low
    IN  IF exp < 3 THEN [err |-> TRUE, str |-> "", raw |-> ""]
        ELSE IF coeff <= 0 THEN [err |-> FALSE, str |-> "N/A", raw |-> "0.0"]
        ELSE [err |-> FALSE, str |-> "diff", raw |-> "diff"]

(***************************************************************************)
(* What a pool sends                                                       *)
(***************************************************************************)

\* A newline-terminated line: a JSON value, a blank line, a line that is no
\* JSON (a banner), or a line whose bytes are no UTF-8.
Json(f) == [kind |-> "json", frame |-> f]
Blank == [kind |-> "blank", frame |-> NonDict]
Banner == [kind |-> "nonjson", frame |-> NonDict]
BadUtf8 == [kind |-> "badutf8", frame |-> NonDict]

\* The lines a pool may send while the session waits for the subscribe
\* response and while it polls for a job.  In the all-pools run every pool
\* draws from a smaller alphabet.
SubLines(m) ==
    IF m = "single"
    THEN { Json(SubOk(EN_A, 1)), Json(SubOk(EN_B, 0)), Json(SubErr),
           Json(SubBoth(EN_A, 1)), Json(SubBad), Json(NonDict),
           Json(Notify("J1")), Blank, Banner, BadUtf8 }
    ELSE { Json(SubOk(EN_A, 1)), Json(SubErr), Json(SubBad), Blank }

PollLines(m) ==
    IF m = "single"
    THEN { Json(Notify("J1")), Json(Notify("J2")), Json(Notify("JT")),
           Json(Notify("JB")), Json(Notify("JM")), Json(SetDiff),
           Json(AuthOk), Json(AuthRej), Json(NonDict),
           Blank, Banner, BadUtf8 }
    ELSE { Json(Notify("J1")), Json(Notify("JT")), Json(Notify("JB")),
           Json(Notify("JM")), Json(SetDiff), Json(AuthRej), Json(NonDict),
           Blank, BadUtf8 }

\* The lines that may also arrive in two reads.
SplitLines == { Blank, Json(Notify("J1")) }

\* The pools of the registry POOLS that the all-pools run goes through.
NPools == 2

\* The frames one _stratum_recv call collects at most.
MaxBatch == 2

\* for attempt in range(15)
MaxAttempts == 15

(***************************************************************************)
(* main and query_pool                                                     *)
(***************************************************************************)

parserVars == <<inp, out>>

\* The process-wide values as main leaves them before the first query
\* (lines 611-622), no option given: nothing after that assigns them.
Config ==
    [WORKER |-> "DEFAULT_WORKER", PASSWORD |-> "x", DEBUG |-> FALSE,
     POOLS |-> NPools]

FreshCall_mut_job_kept ==
    /\ sock' = "none" /\ sent' = <<>> /\ buf' = <<>> /\ results' = <<>>
    /\ responses' = <<>> /\ extranonce1' = extranonce1
    /\ extranonce2_size' = extranonce2_size
    /\ notify' = notify /\ pool_diff' = None /\ auth_rejected' = FALSE
    /\ attempt' = 0 /\ coinbase_hex' = None /\ tx' = None /\ ret' = "none"

\* The locals of one query_pool call, before the call assigns them.
FreshCall ==
    /\ sock' = "none" /\ sent' = <<>> /\ buf' = <<>> /\ results' = <<>>
    /\ responses' = <<>> /\ extranonce1' = None /\ extranonce2_size' = None
    /\ notify' = None /\ pool_diff' = None /\ auth_rejected' = FALSE
    /\ attempt' = 0 /\ coinbase_hex' = None /\ tx' = None /\ ret' = "none"

Init ==
    /\ mode = "single" /\ pool = 1 /\ ok = 0 /\ fail = 0 /\ pc = "main"
    /\ config = Config
    /\ sock = "none" /\ sent = <<>> /\ buf = <<>> /\ results = <<>>
    /\ responses = <<>> /\ extranonce1 = None /\ extranonce2_size = None
    /\ notify = None /\ pool_diff = None /\ auth_rejected = FALSE
    /\ attempt = 0 /\ coinbase_hex = None /\ tx = None /\ ret = "none"
    /\ inp = NoInput /\ out = None

\* The number of pools main queries: the one named, or all of the registry.
PoolCount == IF mode = "single" THEN 1 ELSE NPools

\* main calls query_pool for the next pool (lines 650 and 664).
MainCall ==
    /\ pc = "main"
    /\ pool <= PoolCount
    /\ pc' = "connect"
    /\ FreshCall
    /\ UNCHANGED <<mode, config, pool, ok, fail, parserVars>>

\* main's loop is over (or the single query returned): main returns.
MainExit ==
    /\ pc = "main"
    /\ pool > PoolCount
    /\ pc' = "exit"
    /\ UNCHANGED <<mode, config, pool, ok, fail, sock, sent, buf, results, responses,
                   extranonce1, extranonce2_size, notify, pool_diff,
                   auth_rejected, attempt, coinbase_hex, tx, ret, parserVars>>

\* The except clauses of query_pool (lines 570-573): socket.timeout,
\* ConnectionRefusedError, ConnectionResetError, then Exception, which every
\* exception raised inside the try block derives from.
Caught_mut_network_only(exc) ==
    exc \in {"timeout", "ConnectionRefusedError", "ConnectionResetError"}

Caught(exc) ==
    \/ exc \in {"timeout", "ConnectionRefusedError", "ConnectionResetError"}
    \/ exc \in {"OSError", "BrokenPipeError", "AttributeError", "IndexError",
                "TypeError", "ValueError", "struct.error",
                "UnicodeDecodeError"}

\* An exception raised inside the try block: a handler prints it and
\* query_pool returns False (line 574), the socket left as it is; an
\* exception no handler took would leave query_pool and end main.
Raise(exc) ==
    IF Caught(exc)
    THEN /\ ret' = "False"
         /\ pc' = "return"
    ELSE /\ ret' = "none"
         /\ pc' = "crashed"

\* _tcp_connect (lines 321-328): connect under a 30 s timeout.
Connect ==
    /\ pc = "connect"
    /\ \E outcome \in {"ok", "timeout", "ConnectionRefusedError",
                       "ConnectionResetError", "OSError"} :
         IF outcome = "ok"
         THEN /\ sock' = "open"
              /\ pc' = "subscribe"
              /\ ret' = ret
         ELSE /\ sock' = sock
              /\ Raise(outcome)
    /\ UNCHANGED <<mode, config, pool, ok, fail, sent, buf, results, responses,
                   extranonce1, extranonce2_size, notify, pool_diff,
                   auth_rejected, attempt, coinbase_hex, tx, parserVars>>

\* _stratum_send(sock, 'mining.subscribe', ...) and the entry into
\* _stratum_recv (lines 411-412, 338-340).
SendSubscribe ==
    /\ pc = "subscribe"
    /\ \E outcome \in {"ok", "timeout", "BrokenPipeError",
                       "ConnectionResetError"} :
         IF outcome = "ok"
         THEN /\ sent' = Append(sent, "mining.subscribe")
              /\ pc' = "sub_recv"
              /\ ret' = ret
         ELSE /\ sent' = sent
              /\ Raise(outcome)
    /\ UNCHANGED <<mode, config, pool, ok, fail, sock, buf, results, responses,
                   extranonce1, extranonce2_size, notify, pool_diff,
                   auth_rejected, attempt, coinbase_hex, tx, parserVars>>

(***************************************************************************)
(* _stratum_recv                                                           *)
(***************************************************************************)

Receiving == pc \in {"sub_recv", "poll_recv"}

\* The lines the pool may send at this point of the session.
Lines == IF pc = "sub_recv" THEN SubLines(mode) ELSE PollLines(mode)

\* Lines 347-357 for one complete line: a blank line is dropped, a JSON
\* value is appended to results, a line json.loads rejects with
\* JSONDecodeError is printed; json.loads of bytes that are no UTF-8 raises
\* UnicodeDecodeError, which no handler of _stratum_recv takes.
TakeLine(line) ==
    CASE line.kind = "json" ->
            /\ Len(results) < MaxBatch
            /\ results' = Append(results, line.frame)
            /\ UNCHANGED <<pc, ret>>
      [] line.kind = "badutf8" ->
            /\ results' = results
            /\ Raise("UnicodeDecodeError")
      [] OTHER ->
            /\ UNCHANGED <<results, pc, ret>>

\* sock.recv returns the bytes of one whole line (lines 343-357).
RecvLine ==
    /\ Receiving
    /\ buf = <<>>
    /\ \E line \in Lines : TakeLine(line)
    /\ UNCHANGED <<mode, config, pool, ok, fail, sock, sent, buf, responses,
                   extranonce1, extranonce2_size, notify, pool_diff,
                   auth_rejected, attempt, coinbase_hex, tx, parserVars>>

\* sock.recv returns the first bytes of a line, without its newline: they
\* stay in buf (line 346).
RecvHead ==
    /\ Receiving
    /\ buf = <<>>
    /\ \E line \in Lines \cap SplitLines : buf' = <<line>>
    /\ UNCHANGED <<mode, config, pool, ok, fail, pc, sock, sent, results, responses,
                   extranonce1, extranonce2_size, notify, pool_diff,
                   auth_rejected, attempt, coinbase_hex, tx, ret, parserVars>>

\* sock.recv returns the rest of the line in buf, with its newline.
RecvTail ==
    /\ Receiving
    /\ buf # <<>>
    /\ TakeLine(buf[1])
    /\ buf' = <<>>
    /\ UNCHANGED <<mode, config, pool, ok, fail, sock, sent, responses,
                   extranonce1, extranonce2_size, notify, pool_diff,
                   auth_rejected, attempt, coinbase_hex, tx, parserVars>>

\* sock.recv times out, returns no bytes (the pool closed the connection) or
\* raises OSError: the loop breaks and _stratum_recv returns results (lines
\* 344-345, 360-366).  buf and results are locals of the call and end with
\* it.
RecvBreak ==
    /\ Receiving
    /\ responses' = results
    /\ results' = <<>>
    /\ buf' = <<>>
    /\ pc' = IF pc = "sub_recv" THEN "sub_done" ELSE "poll_done"
    /\ UNCHANGED <<mode, config, pool, ok, fail, sock, sent,
                   extranonce1, extranonce2_size, notify, pool_diff,
                   auth_rejected, attempt, coinbase_hex, tx, ret, parserVars>>

(***************************************************************************)
(* query_pool: subscribe response, authorize, polling                      *)
(***************************************************************************)

\* One pass of the loop of lines 415-422 over frame r, from the locals in
\* acc: st is "run", "failed" (the return of line 422) or an exception.
SubscribeStep_mut_error_ignored(acc, r) ==
    IF acc.st # "run" THEN acc
    ELSE IF ~r.isdict THEN [acc EXCEPT !.st = "AttributeError"]
    ELSE IF r.id # 1 THEN acc
    ELSE IF Truthy(r.result)
         THEN IF r.result.t = "list"
              THEN [acc EXCEPT !.en1 = Some(r.result.en1),
                               !.size = Some(r.result.size)]
              ELSE [acc EXCEPT !.st = IF r.result.t = "short"
                                      THEN "IndexError" ELSE "TypeError"]
    ELSE acc

SubscribeStep(acc, r) ==
    IF acc.st # "run" THEN acc
    ELSE IF ~r.isdict THEN [acc EXCEPT !.st = "AttributeError"]
    ELSE IF r.id # 1 THEN acc
    ELSE IF Truthy(r.result)
         THEN IF r.result.t = "list"
              THEN [acc EXCEPT !.en1 = Some(r.result.en1),
                               !.size = Some(r.result.size)]
              ELSE [acc EXCEPT !.st = IF r.result.t = "short"
                                      THEN "IndexError" ELSE "TypeError"]
    ELSE IF r.error THEN [acc EXCEPT !.st = "failed"]
    ELSE acc

RECURSIVE SubscribeLoop(_, _)
SubscribeLoop(acc, rs) ==
    IF rs = <<>> THEN acc
    ELSE SubscribeLoop(SubscribeStep(acc, Head(rs)), Tail(rs))

\* Lines 414-425: the subscribe response is looked for in responses.
ProcessSubscribe ==
    /\ pc = "sub_done"
    /\ LET r == SubscribeLoop([st |-> "run", en1 |-> None, size |-> None],
                              responses)
       IN  /\ extranonce1' = r.en1
           /\ extranonce2_size' = r.size
           /\ IF r.st \notin {"run", "failed"}
              THEN /\ Raise(r.st)
                   /\ sock' = sock
              ELSE IF r.st = "failed" \/ r.en1 = None
              THEN /\ sock' = "closed"
                   /\ ret' = "False"
                   /\ pc' = "return"
              ELSE /\ sock' = sock
                   /\ ret' = ret
                   /\ pc' = "authorize"
    /\ UNCHANGED <<mode, config, pool, ok, fail, sent, buf, results, responses,
                   notify, pool_diff, auth_rejected, attempt, coinbase_hex,
                   tx, parserVars>>

\* _stratum_send(sock, 'mining.authorize', ...), the locals of the polling
\* loop and the entry into its first _stratum_recv (lines 429-437).
\* responses is not read again before that call's return rebinds it: it
\* is modelled as empty from here.
SendAuthorize ==
    /\ pc = "authorize"
    /\ \E outcome \in {"ok", "timeout", "BrokenPipeError",
                       "ConnectionResetError"} :
         IF outcome = "ok"
         THEN /\ sent' = Append(sent, "mining.authorize")
              /\ pc' = "poll_recv"
              /\ ret' = ret
         ELSE /\ sent' = sent
              /\ Raise(outcome)
    /\ notify' = None
    /\ pool_diff' = None
    /\ auth_rejected' = FALSE
    /\ attempt' = 0
    /\ responses' = <<>>
    /\ UNCHANGED <<mode, config, pool, ok, fail, sock, buf, results, extranonce1,
                   extranonce2_size, coinbase_hex, tx, parserVars>>

\* One pass of the loop of lines 444-457 over frame r.
PollStep_mut_rejection_drops_job(acc, r) ==
    IF acc.st # "run" THEN acc
    ELSE IF ~r.isdict THEN [acc EXCEPT !.st = "AttributeError"]
    ELSE IF r.method = "mining.notify" THEN [acc EXCEPT !.notify = Some(r)]
    ELSE IF r.method = "mining.set_difficulty"
         THEN [acc EXCEPT !.pool_diff = Some(r.params)]
    ELSE IF r.id = 2
         THEN IF r.result.t = "true" THEN acc
              ELSE [acc EXCEPT !.auth_rejected = TRUE, !.notify = None]
    ELSE acc

PollStep_mut_authorized_is_job(acc, r) ==
    IF acc.st # "run" THEN acc
    ELSE IF ~r.isdict THEN [acc EXCEPT !.st = "AttributeError"]
    ELSE IF r.method = "mining.notify" THEN [acc EXCEPT !.notify = Some(r)]
    ELSE IF r.method = "mining.set_difficulty"
         THEN [acc EXCEPT !.pool_diff = Some(r.params)]
    ELSE IF r.id = 2
         THEN IF r.result.t = "true" THEN [acc EXCEPT !.notify = Some(r)]
              ELSE [acc EXCEPT !.auth_rejected = TRUE]
    ELSE acc

PollStep(acc, r) ==
    IF acc.st # "run" THEN acc
    ELSE IF ~r.isdict THEN [acc EXCEPT !.st = "AttributeError"]
    ELSE IF r.method = "mining.notify" THEN [acc EXCEPT !.notify = Some(r)]
    ELSE IF r.method = "mining.set_difficulty"
         THEN [acc EXCEPT !.pool_diff = Some(r.params)]
    ELSE IF r.id = 2
         THEN IF r.result.t = "true" THEN acc
              ELSE [acc EXCEPT !.auth_rejected = TRUE]
    ELSE acc

RECURSIVE PollLoop(_, _)
PollLoop(acc, rs) ==
    IF rs = <<>> THEN acc
    ELSE PollLoop(PollStep(acc, Head(rs)), Tail(rs))

\* Line 458: if notify or auth_rejected: break
LoopBreaks_mut_job_only(n, rej) == n # None

LoopBreaks(n, rej) == n # None \/ rej

\* Lines 444-459 and the loop header of line 436: the frames of one polling
\* attempt are dispatched; the loop ends on a job, on a rejection, or after
\* its last attempt, and goes into the next _stratum_recv otherwise, whose
\* return rebinds responses (modelled as empty until then).
ProcessPoll ==
    /\ pc = "poll_done"
    /\ LET r == PollLoop([st |-> "run", notify |-> notify,
                          pool_diff |-> pool_diff,
                          auth_rejected |-> auth_rejected], responses)
       IN  /\ notify' = r.notify
           /\ pool_diff' = r.pool_diff
           /\ auth_rejected' = r.auth_rejected
           /\ IF r.st # "run"
              THEN /\ Raise(r.st)
                   /\ attempt' = attempt
              ELSE /\ ret' = ret
                   /\ IF LoopBreaks(r.notify, r.auth_rejected)
                      THEN /\ pc' = "close"
                           /\ attempt' = attempt
                      ELSE IF attempt + 1 < MaxAttempts
                      THEN /\ pc' = "poll_recv"
                           /\ attempt' = attempt + 1
                      ELSE /\ pc' = "close"
                           /\ attempt' = attempt
    /\ responses' = IF pc' = "poll_recv" THEN <<>> ELSE responses
    /\ UNCHANGED <<mode, config, pool, ok, fail, sock, sent, buf, results, extranonce1,
                   extranonce2_size, coinbase_hex, tx, parserVars>>

\* Line 462: if auth_rejected and not notify
FailsRejected_mut_any_rejection(n, rej) == rej

FailsRejected(n, rej) == rej /\ n = None

\* Line 466: if not notify
FailsTimeout(n) == n = None

\* Lines 460-467: the socket is closed; without a job the call returns
\* False (rejected, or timed out).
ClosePoll ==
    /\ pc = "close"
    /\ sock' = "closed"
    /\ IF FailsRejected(notify, auth_rejected) \/ FailsTimeout(notify)
       THEN /\ ret' = "False"
            /\ pc' = "return"
       ELSE /\ ret' = ret
            /\ pc' = "decode"
    /\ UNCHANGED <<mode, config, pool, ok, fail, sent, buf, results, responses,
                   extranonce1, extranonce2_size, notify, pool_diff,
                   auth_rejected, attempt, coinbase_hex, tx, parserVars>>

(***************************************************************************)
(* query_pool: decoding the job                                            *)
(***************************************************************************)

\* Line 477: cb1 + extranonce1 + ('00' * extranonce2_size) + cb2.
Assemble_mut_nonce_order(cb1, en1, size, cb2) ==
    cb1 \o Zeros(2 * size) \o en1 \o cb2

Assemble(cb1, en1, size, cb2) == cb1 \o en1 \o Zeros(2 * size) \o cb2

\* Lines 471-568: the params are unpacked, the coinbase assembled and
\* parsed, its first input and the compact target decoded, the report
\* printed.  Any of these raising ends the call in a handler.
Decode ==
    /\ pc = "decode"
    /\ LET job  == Job(notify[1].params)
           asm  == Assemble(job.cb1, extranonce1[1], extranonce2_size[1], job.cb2)
           raw  == fromhex(asm)
           res  == parse(raw.bytes)
           diff == nbits_to_difficulty(job.nbits)
       IN  IF job.n < 8
           THEN /\ Raise("IndexError")
                /\ UNCHANGED <<coinbase_hex, tx>>
           ELSE /\ coinbase_hex' = Some(asm)
                /\ IF raw.err
                   THEN /\ Raise("ValueError")
                        /\ tx' = tx
                   ELSE IF res.err
                   THEN /\ Raise("struct.error")
                        /\ tx' = tx
                   ELSE /\ tx' = Some(res.tx)
                        /\ IF res.tx.inputs = <<>>
                           THEN Raise("IndexError")
                           ELSE IF diff.err
                           THEN Raise("ValueError")
                           ELSE /\ ret' = "True"
                                /\ pc' = "return"
    /\ UNCHANGED <<mode, config, pool, ok, fail, sock, sent, buf, results, responses,
                   extranonce1, extranonce2_size, notify, pool_diff,
                   auth_rejected, attempt, parserVars>>

\* query_pool returned to main, its locals gone with the call: the
\* all-pools loop counts the outcome (lines 664-667); the single-pool call
\* ignores it (line 650).
MainCount ==
    /\ pc = "return"
    /\ ok' = IF mode = "all" /\ ret = "True" THEN ok + 1 ELSE ok
    /\ fail' = IF mode = "all" /\ ret # "True" THEN fail + 1 ELSE fail
    /\ pool' = pool + 1
    /\ pc' = "main"
    /\ FreshCall
    /\ UNCHANGED <<mode, config, parserVars>>

\* The socket object is unreferenced once the call's frame is gone.  An
\* interpreter that counts references closes it then; the language does
\* not promise when, or whether, an unreferenced socket is closed.
Finalize ==
    /\ pc = "return"
    /\ sock = "open"
    /\ sock' = "closed"
    /\ UNCHANGED <<mode, config, pool, ok, fail, pc, sent, buf, results, responses,
                   extranonce1, extranonce2_size, notify, pool_diff,
                   auth_rejected, attempt, coinbase_hex, tx, ret, parserVars>>

Next ==
    \/ MainCall
    \/ MainExit
    \/ Connect
    \/ SendSubscribe
    \/ RecvLine
    \/ RecvHead
    \/ RecvTail
    \/ RecvBreak
    \/ ProcessSubscribe
    \/ SendAuthorize
    \/ ProcessPoll
    \/ ClosePoll
    \/ Decode
    \/ Finalize
    \/ MainCount

\* One pool named on the command line.
Spec == Init /\ [][Next]_vars

\* The steps of a session short of decoding a job.
SessionStep ==
    \/ MainCall
    \/ MainExit
    \/ Connect
    \/ SendSubscribe
    \/ RecvLine
    \/ RecvHead
    \/ RecvTail
    \/ RecvBreak
    \/ ProcessSubscribe
    \/ SendAuthorize
    \/ ProcessPoll
    \/ ClosePoll
    \/ Finalize
    \/ MainCount

\* The same, the program never stopping while a step of the session is
\* possible: the interpreter keeps running, and every socket call returns
\* (data, a timeout or an error) within its timeout.  Which of them a
\* recv returns is the pool's doing and is not constrained.
FairSpec == Init /\ [][Next]_vars /\ WF_vars(SessionStep)

\* No pool named: main goes through the registry.
MainInit ==
    /\ mode = "all" /\ pool = 1 /\ ok = 0 /\ fail = 0 /\ pc = "main"
    /\ config = Config
    /\ sock = "none" /\ sent = <<>> /\ buf = <<>> /\ results = <<>>
    /\ responses = <<>> /\ extranonce1 = None /\ extranonce2_size = None
    /\ notify = None /\ pool_diff = None /\ auth_rejected = FALSE
    /\ attempt = 0 /\ coinbase_hex = None /\ tx = None /\ ret = "none"
    /\ inp = NoInput /\ out = None

MainSpec == MainInit /\ [][Next]_vars

(***************************************************************************)
(* The parser check: parse, or _varint, applied to one byte string         *)
(***************************************************************************)

SessionIdle ==
    /\ mode = "single" /\ pool = 0 /\ ok = 0 /\ fail = 0 /\ pc = "parser"
    /\ config = Config
    /\ sock = "none" /\ sent = <<>> /\ buf = <<>> /\ results = <<>>
    /\ responses = <<>> /\ extranonce1 = None /\ extranonce2_size = None
    /\ notify = None /\ pool_diff = None /\ auth_rejected = FALSE
    /\ attempt = 0 /\ coinbase_hex = None /\ tx = None /\ ret = "none"

sessionVars == <<mode, config, pool, ok, fail, pc, sock, sent, buf, results, responses,
                 extranonce1, extranonce2_size, notify, pool_diff,
                 auth_rejected, attempt, coinbase_hex, tx, ret>>

ParseInit ==
    /\ SessionIdle
    /\ inp \in ParserInputs
    /\ out = None

ParseTx ==
    /\ out = None
    /\ inp.kind \in {"wellformed", "truncated", "corrupt"}
    /\ out' = Some(parse(inp.bytes))
    /\ UNCHANGED <<inp, sessionVars>>

ReadVarint ==
    /\ out = None
    /\ inp.kind = "varint"
    /\ out' = Some(_varint(inp.bytes, 0))
    /\ UNCHANGED <<inp, sessionVars>>

ParseNext == ParseTx \/ ReadVarint

ParseSpec == ParseInit /\ [][ParseNext]_vars

(***************************************************************************)
(* The field decoders                                                      *)
(***************************************************************************)

\* Python's s[i:j] for 0 <= i <= j, on a sequence.
Slice(s, i, j) == SubSeq(s, Min(i, Len(s)) + 1, Min(j, Len(s)))

\* Step 1 of stratum_prevhash_to_blockchain (lines 312-315): hex character
\* k of the string in which the bytes of every group of eight characters
\* are taken in the order 6, 4, 2, 0.
SwapGroups(h) ==
    [k \in 1 .. 64 |->
        h[8 * ((k - 1) \div 8) + (6 - 2 * (((k - 1) % 8) \div 2))
            + ((k - 1) % 2) + 1]]

ReverseBytes32_mut_chars(s) == [k \in 1 .. 64 |-> s[65 - k]]

\* Step 2 (line 317): the bytes at 62, 60, ... 0.
ReverseBytes32(s) ==
    [k \in 1 .. 64 |-> s[(62 - 2 * ((k - 1) \div 2)) + ((k - 1) % 2) + 1]]

stratum_prevhash_mut_no_group_swap(h) ==
    IF Len(h) # 64 THEN h ELSE ReverseBytes32(h)

stratum_prevhash_to_blockchain(h) ==
    IF Len(h) # 64 THEN h ELSE ReverseBytes32(SwapGroups(h))

parse_block_height_mut_short_push(s) ==
    IF Len(s) < 2 THEN None
    ELSE IF s[1] >= 1 /\ s[1] <= 8 /\ Len(s) >= s[1]
         THEN Some(LE(Slice(s, 1, 1 + s[1])))
         ELSE None

\* parse_block_height (lines 219-226); the height is a Num.
parse_block_height(s) ==
    IF Len(s) < 2 THEN None
    ELSE IF s[1] >= 1 /\ s[1] <= 8 /\ Len(s) > s[1]
         THEN Some(LE(Slice(s, 1, 1 + s[1])))
         ELSE None

\* The dict of the two encodings of a HASH-160 (lines 266-269, 278-281,
\* 291-294), kept as what is encoded: the script type handed to the
\* encoders and the 20 bytes.  For P2PK the 20 bytes are
\* RIPEMD-160(SHA-256(pubkey)), which is not computed here: the public key
\* is kept in their place.
AddressPair(script_type, hash160, pubkey) ==
    [script_type |-> script_type, hash160 |-> hash160, pubkey |-> pubkey]

Classified(type, addr, extra) == [type |-> type, addr |-> addr, extra |-> extra]

parse_script_pubkey_mut_key_length(script) ==
    IF script = <<>> THEN Classified("EMPTY", None, <<>>)
    ELSE IF /\ Len(script) = 25
            /\ Slice(script, 0, 3) = <<118, 169, 20>>
            /\ Slice(script, 23, 25) = <<136, 172>>
    THEN Classified("P2PKH",
             Some(AddressPair("P2PKH", Slice(script, 3, 23), <<>>)),
             hex(Slice(script, 3, 23)))
    ELSE IF /\ Len(script) = 23
            /\ Slice(script, 0, 2) = <<169, 20>>
            /\ script[23] = 135
    THEN Classified("P2SH",
             Some(AddressPair("P2SH", Slice(script, 2, 22), <<>>)),
             hex(Slice(script, 2, 22)))
    ELSE IF script[1] = 106
    THEN Classified("OP_RETURN", None, hex(Slice(script, 1, Len(script))))
    ELSE IF /\ script[Len(script)] = 172
            /\ Len(script) \in {33, 65}
            /\ script[1] = Len(script) - 2
    THEN Classified("P2PK",
             Some(AddressPair("P2PKH", <<>>, Slice(script, 1, Len(script) - 1))),
             hex(Slice(script, 1, Len(script) - 1)))
    ELSE Classified("UNKNOWN", None, hex(script))

\* parse_script_pubkey (lines 251-296): (script_type, address dict or
\* None, extra hex).
parse_script_pubkey(script) ==
    IF script = <<>> THEN Classified("EMPTY", None, <<>>)
    ELSE IF /\ Len(script) = 25
            /\ Slice(script, 0, 3) = <<118, 169, 20>>
            /\ Slice(script, 23, 25) = <<136, 172>>
    THEN Classified("P2PKH",
             Some(AddressPair("P2PKH", Slice(script, 3, 23), <<>>)),
             hex(Slice(script, 3, 23)))
    ELSE IF /\ Len(script) = 23
            /\ Slice(script, 0, 2) = <<169, 20>>
            /\ script[23] = 135
    THEN Classified("P2SH",
             Some(AddressPair("P2SH", Slice(script, 2, 22), <<>>)),
             hex(Slice(script, 2, 22)))
    ELSE IF script[1] = 106
    THEN Classified("OP_RETURN", None, hex(Slice(script, 1, Len(script))))
    ELSE IF /\ script[Len(script)] = 172
            /\ Len(script) \in {35, 67}
            /\ script[1] = Len(script) - 2
    THEN Classified("P2PK",
             Some(AddressPair("P2PKH", <<>>, Slice(script, 1, Len(script) - 1))),
             hex(Slice(script, 1, Len(script) - 1)))
    ELSE Classified("UNKNOWN", None, hex(script))

\* 2^n, for the small widths of _convert_bits.
RECURSIVE Pow2(_)
Pow2(n) == IF n = 0 THEN 1 ELSE 2 * Pow2(n - 1)

\* A natural number as its binary digits, most significant first; an
\* accumulator of _convert_bits is kept in this form, Python's integers
\* having no width.
RECURSIVE NatBits(_)
NatBits(v) == IF v = 0 THEN <<>> ELSE Append(NatBits(v \div 2), v % 2)

RECURSIVE BitsValue(_)
BitsValue(bs) ==
    IF bs = <<>> THEN 0
    ELSE 2 * BitsValue(SubSeq(bs, 1, Len(bs) - 1)) + bs[Len(bs)]

\* Bit i of a, counted from the left end of a; 0 before its first digit.
BitAt(a, i) == IF i >= 1 /\ i <= Len(a) THEN a[i] ELSE 0

\* a | b
OrBits(a, b) ==
    LET n == IF Len(a) > Len(b) THEN Len(a) ELSE Len(b)
    IN  SubSeq([i \in 1 .. n |->
                   IF BitAt(a, i - (n - Len(a))) + BitAt(b, i - (n - Len(b))) > 0
                   THEN 1 ELSE 0], 1, n)

\* (a >> shift) & ((1 << width) - 1)
Field(a, shift, width) ==
    BitsValue([i \in 1 .. width |-> BitAt(a, Len(a) - shift - width + i)])

\* The while loop of lines 101-103.  Each new state is bound through a
\* one-element set, so that it is computed once.
RECURSIVE ConvertDrain(_, _)
ConvertDrain(st, to_bits) ==
    IF st.bits >= to_bits
    THEN CHOOSE r \in
             { ConvertDrain(s, to_bits) :
                 s \in { [acc  |-> st.acc,
                          bits |-> st.bits - to_bits,
                          ret  |-> Append(st.ret,
                                      Field(st.acc, st.bits - to_bits, to_bits))] } } :
             TRUE
    ELSE st

\* One pass of the for loop of lines 98-103.
ConvertValue(st, value, from_bits, to_bits) ==
    CHOOSE r \in
        { ConvertDrain(s, to_bits) :
            s \in { [acc  |-> OrBits(st.acc \o Zeros(from_bits), NatBits(value)),
                     bits |-> st.bits + from_bits,
                     ret  |-> st.ret] } } :
        TRUE

\* The for loop of lines 98-103, from value i of data on.
RECURSIVE ConvertLoop(_, _, _, _, _)
ConvertLoop(st, data, i, from_bits, to_bits) ==
    IF i > Len(data) THEN st
    ELSE CHOOSE r \in
             { ConvertLoop(s, data, i + 1, from_bits, to_bits) :
                 s \in { ConvertValue(st, data[i], from_bits, to_bits) } } :
             TRUE

\* Lines 104-105: if pad and bits
ConvertPad_mut_no_shift(st, to_bits, pad) ==
    IF pad /\ st.bits # 0
    THEN Append(st.ret, Field(st.acc, 0, st.bits))
    ELSE st.ret

ConvertPad(st, to_bits, pad) ==
    IF pad /\ st.bits # 0
    THEN Append(st.ret, Field(st.acc \o Zeros(to_bits - st.bits), 0, to_bits))
    ELSE st.ret

\* _convert_bits (lines 94-106)
_convert_bits(data, from_bits, to_bits, pad) ==
    CHOOSE r \in
        { ConvertPad(st, to_bits, pad) :
            st \in { ConvertLoop([acc |-> <<>>, bits |-> 0, ret |-> <<>>],
                                 data, 1, from_bits, to_bits) } } :
        TRUE

\* A 40-bit value of _cashaddr_polymod is eight digits of five bits, most
\* significant first.
Xor5(a, b) ==
    ((a + b) % 2)
    + 2 * (((a \div 2) + (b \div 2)) % 2)
    + 4 * (((a \div 4) + (b \div 4)) % 2)
    + 8 * (((a \div 8) + (b \div 8)) % 2)
    + 16 * (((a \div 16) + (b \div 16)) % 2)

XorDigits(x, y) == SubSeq([i \in 1 .. 8 |-> Xor5(x[i], y[i])], 1, 8)

\* 0x98f2bc8e61, 0x79b76d99e2, 0xf33e5fb3c4, 0xae2eabe2a8, 0x1e4f43e470
Generators ==
    << <<19, 3, 25, 11, 25, 3, 19, 1>>,
       <<15, 6, 27, 22, 27, 6, 15, 2>>,
       <<30, 12, 31, 5, 31, 12, 30, 4>>,
       <<21, 24, 23, 10, 23, 24, 21, 8>>,
       <<3, 25, 7, 20, 7, 25, 3, 16>> >>

\* if c0 & 2^k: c ^= generator k (lines 82-86)
XorIf(c, c0, k) ==
    IF (c0 \div Pow2(k)) % 2 = 1 THEN XorDigits(c, Generators[k + 1]) ELSE c

\* One pass of the loop of lines 79-86, for a value d below 32.
PolymodStep(c, d) ==
    XorIf(XorIf(XorIf(XorIf(XorIf(
        Append(Tail(c), d),
        c[1], 0), c[1], 1), c[1], 2), c[1], 3), c[1], 4)

\* The loop of lines 79-86, from value i on.
RECURSIVE PolymodLoop(_, _, _)
PolymodLoop(c, values, i) ==
    IF i > Len(values) THEN c
    ELSE CHOOSE r \in
             { PolymodLoop(c2, values, i + 1) :
                 c2 \in { PolymodStep(c, values[i]) } } :
             TRUE

\* _cashaddr_polymod (lines 76-87)
_cashaddr_polymod(values) ==
    XorDigits(PolymodLoop(<<0, 0, 0, 0, 0, 0, 0, 1>>, values, 1),
              <<0, 0, 0, 0, 0, 0, 0, 1>>)

\* _cashaddr_hrp_expand('bitcoincash') (lines 90-91)
HrpExpanded == <<2, 9, 20, 3, 15, 9, 14, 3, 1, 19, 8, 0>>

\* _CASHADDR_CHARSET (line 73)
CashAddrCharset ==
    <<"q", "p", "z", "r", "y", "9", "x", "8", "g", "f", "2", "t", "v", "d", "w", "0">>
        \o <<"s", "3", "j", "n", "5", "4", "k", "h", "c", "e", "6", "m", "u", "a", "7", "l">>

\* hash160_to_cashaddr (lines 109-116): the prefix and the characters after
\* the colon.
hash160_to_cashaddr(hash160, script_type) ==
    CHOOSE r \in
        { [prefix |-> "bitcoincash",
           chars  |-> SubSeq([i \in 1 .. Len(digits) |->
                                 CashAddrCharset[digits[i] + 1]],
                             1, Len(digits))] :
            digits \in
                { payload \o _cashaddr_polymod(HrpExpanded \o payload \o Zeros(8)) :
                    payload \in
                        { _convert_bits(
                              <<IF script_type = "P2PKH" THEN 0 ELSE 8>> \o hash160,
                              8, 5, TRUE) } } } :
        TRUE


\* _BASE58_ALPHABET (line 123)
Base58Alphabet ==
    <<"1", "2", "3", "4", "5", "6", "7", "8", "9", "A", "B", "C", "D", "E", "F">>
        \o <<"G", "H", "J", "K", "L", "M", "N", "P", "Q", "R", "S", "T", "U", "V">>
        \o <<"W", "X", "Y", "Z", "a", "b", "c", "d", "e", "f", "g", "h", "i", "j">>
        \o <<"k", "m", "n", "o", "p", "q", "r", "s", "t", "u", "v", "w", "x", "y", "z">>

\* The integer of line 130 is kept as its big-endian bytes, Python's
\* integers having no width; it is zero when every byte is.
IsZeroInt(n) == \A i \in 1 .. Len(n) : n[i] = 0

\* divmod(n, 58) (line 133) by long division over the bytes of n, from byte
\* i on, q being the quotient bytes so far and r the running remainder.
RECURSIVE DivLoop(_, _, _, _)
DivLoop(n, i, q, r) ==
    IF i > Len(n) THEN [q |-> q, r |-> r]
    ELSE CHOOSE x \in
             { DivLoop(t.n, t.i, Append(t.q, t.v \div 58), t.v % 58) :
                 t \in { [n |-> n, i |-> i + 1, q |-> q,
                          v |-> 256 * r + n[i]] } } :
             TRUE

divmod58(n) == DivLoop(n, 1, <<>>, 0)

\* The while loop of lines 132-134.
RECURSIVE Base58Digits(_, _)
Base58Digits(n, result) ==
    IF IsZeroInt(n) THEN result
    ELSE CHOOSE x \in
             { Base58Digits(d.q, <<Base58Alphabet[d.r + 1]>> \o result) :
                 d \in { divmod58(n) } } :
             TRUE

LeadingZeroBytes_mut_every_zero(data) ==
    Cardinality({ i \in 1 .. Len(data) : data[i] = 0 })

\* The number of passes of the for loop of lines 136-140 that prepend a "1":
\* the bytes before the first byte that is not zero.
LeadingZeroBytes(data) ==
    Cardinality({ i \in 1 .. Len(data) : \A j \in 1 .. i : data[j] = 0 })

\* Lines 130-141 of _base58check_encode, on data = payload + checksum.
Base58Encode(data) ==
    [i \in 1 .. LeadingZeroBytes(data) |-> "1"] \o Base58Digits(data, <<>>)

\* _base58check_encode (lines 126-141).  The checksum of line 128, the
\* first four bytes of SHA-256(SHA-256(payload)), is not computed here: it
\* is given.
_base58check_encode(payload, checksum) == Base58Encode(payload \o checksum)


(***************************************************************************)
(* The field decoders, each applied to one input                           *)
(***************************************************************************)

\* The wire-order hash 00010203 04050607 ... 1c1d1e1f as hex characters.
SequentialHash == hex([i \in 1 .. 32 |-> i - 1])

PrevhashInputs ==
    { [kind |-> "prevhash", bytes |-> h] :
        h \in { SequentialHash,
                hex([i \in 1 .. 32 |-> (37 * i + 11) % 256]),
                hex(Zeros(32)),
                <<>>, <<10, 11, 12>>,
                Prefix(SequentialHash, 62), Prefix(SequentialHash, 63),
                SequentialHash \o <<0>>, SequentialHash \o <<0, 1>> } }

\* Unlock scripts: every first byte 0..9 with 0..9 bytes after it, the
\* script 03 22 0c 0a and a tag, and the widest height.
ScriptSigInputs ==
    { [kind |-> "script_sig", bytes |-> s] :
        s \in { <<h>> \o [i \in 1 .. n |-> (37 * i + h) % 256] :
                   h \in 0 .. 9, n \in 0 .. 9 }
              \cup { <<>>, <<3, 34, 12, 10, 47, 80, 47>>,
                     <<8, 255, 255, 255, 255, 255, 255, 255, 255>>,
                     <<76, 1, 2>> } }

\* A script of n bytes that starts with head and ends with tail.
Shape(n, head, tail) ==
    [i \in 1 .. n |->
        IF i <= Len(head) THEN head[i]
        ELSE IF i > n - Len(tail) THEN tail[i - (n - Len(tail))]
        ELSE (7 * i) % 256]

\* Output scripts: each pattern of parse_script_pubkey, and the scripts one
\* length, one first byte or one last byte away from it.
ScriptInputs ==
    { [kind |-> "script", bytes |-> s] :
        s \in { Shape(n, head, tail) :
                   n \in {5, 23, 24, 25, 35, 36, 67},
                   head \in { <<118, 169, 20>>, <<118, 169, 21>>, <<169, 20>>,
                              <<106>>, <<33>>, <<65>>, <<>> },
                   tail \in { <<136, 172>>, <<136, 173>>, <<135>>, <<172>>,
                              <<>> } }
              \cup { <<>>, <<106>>, <<172>> } }

\* Compact targets as eight hex characters: exponents on both sides of 3,
\* coefficients zero, positive and with the sign bit.
NbitsInputs ==
    { [kind |-> "nbits", bytes |-> <<e \div 16, e % 16>> \o c] :
        e \in {0, 1, 2, 3, 4, 29, 255},
        c \in { <<0, 0, 0, 0, 0, 0>>, <<0, 0, 0, 0, 0, 1>>,
                <<0, 0, 15, 15, 15, 15>>, <<7, 15, 15, 15, 15, 15>>,
                <<8, 0, 0, 0, 0, 0>>, <<8, 0, 0, 0, 0, 1>>,
                <<15, 15, 15, 15, 15, 15>> } }

\* The longest data handed to _convert_bits, the 21 bytes of an address
\* payload apart.
MaxData == 3

HashSamples ==
    { Zeros(20), [i \in 1 .. 20 |-> 17], [i \in 1 .. 20 |-> 255],
      [i \in 1 .. 20 |-> (13 * i) % 256] }

BitsInputs ==
    { [kind |-> "bits", bytes |-> d, from_bits |-> w[1], to_bits |-> w[2],
       pad |-> p] :
        w \in { <<8, 5>>, <<5, 8>> },
        d \in SeqsUpTo({0, 1, 21, 31}, MaxData),
        p \in BOOLEAN }
    \cup
    { [kind |-> "bits", bytes |-> d, from_bits |-> 8, to_bits |-> 5,
       pad |-> p] :
        d \in SeqsUpTo({170, 255}, MaxData)
                 \cup { <<v>> \o h : v \in {0, 8}, h \in HashSamples },
        p \in BOOLEAN }

Hash160Inputs ==
    { [kind |-> "hash160", bytes |-> h, script_type |-> t] :
        h \in HashSamples, t \in {"P2PKH", "P2SH"} }

\* The longest payload handed to _base58check_encode, the 21 bytes of an
\* address payload apart.
MaxPayload == 2

\* Payloads with their four checksum bytes: zero bytes at the head, inside
\* and at the end, the all-zero string, and the 21 bytes of an address.
Base58Inputs ==
    { [kind |-> "base58", bytes |-> p, checksum |-> c] :
        p \in SeqsUpTo({0, 1, 255}, MaxPayload)
                 \cup { <<v>> \o h : v \in {0, 5}, h \in HashSamples },
        c \in { <<0, 0, 0, 0>>, <<0, 0, 0, 57>>, <<0, 58, 0, 0>>,
                <<1, 0, 0, 0>>, <<255, 255, 255, 255>>, <<114, 251, 198, 128>> } }

FieldInputs ==
    PrevhashInputs \cup ScriptSigInputs \cup ScriptInputs \cup NbitsInputs
        \cup BitsInputs \cup Hash160Inputs \cup Base58Inputs

FieldInit ==
    /\ SessionIdle
    /\ inp \in FieldInputs
    /\ out = None

ConvertPrevhash ==
    /\ out = None
    /\ inp.kind = "prevhash"
    /\ out' = Some(stratum_prevhash_to_blockchain(inp.bytes))
    /\ UNCHANGED <<inp, sessionVars>>

ReadBlockHeight ==
    /\ out = None
    /\ inp.kind = "script_sig"
    /\ out' = Some(parse_block_height(inp.bytes))
    /\ UNCHANGED <<inp, sessionVars>>

ClassifyScript ==
    /\ out = None
    /\ inp.kind = "script"
    /\ out' = Some(parse_script_pubkey(inp.bytes))
    /\ UNCHANGED <<inp, sessionVars>>

ComputeDifficulty ==
    /\ out = None
    /\ inp.kind = "nbits"
    /\ out' = Some(nbits_to_difficulty(inp.bytes))
    /\ UNCHANGED <<inp, sessionVars>>

ConvertBits ==
    /\ out = None
    /\ inp.kind = "bits"
    /\ out' = Some(_convert_bits(inp.bytes, inp.from_bits, inp.to_bits, inp.pad))
    /\ UNCHANGED <<inp, sessionVars>>

EncodeCashAddr ==
    /\ out = None
    /\ inp.kind = "hash160"
    /\ out' = Some(hash160_to_cashaddr(inp.bytes, inp.script_type))
    /\ UNCHANGED <<inp, sessionVars>>

EncodeBase58 ==
    /\ out = None
    /\ inp.kind = "base58"
    /\ out' = Some(_base58check_encode(inp.bytes, inp.checksum))
    /\ UNCHANGED <<inp, sessionVars>>

FieldNext ==
    \/ ConvertPrevhash
    \/ ReadBlockHeight
    \/ ClassifyScript
    \/ ComputeDifficulty
    \/ ConvertBits
    \/ EncodeCashAddr
    \/ EncodeBase58

FieldSpec == FieldInit /\ [][FieldNext]_vars

(***************************************************************************)
(* Properties                                                              *)
(***************************************************************************)

IsNotify(r) == r.isdict /\ r.method = "mining.notify"

\* A response with id 2 whose result is not true, as line 451 takes it.
IsRejection(r) ==
    /\ r.isdict
    /\ r.method \notin {"mining.notify", "mining.set_difficulty"}
    /\ r.id = 2
    /\ r.result.t # "true"

HasNotify(rs) == \E i \in 1 .. Len(rs) : IsNotify(rs[i])
HasRejection(rs) == \E i \in 1 .. Len(rs) : IsRejection(rs[i])
AllObjects(rs) == \A i \in 1 .. Len(rs) : rs[i].isdict

\* The authorize request went out: responses holds polling batches only.
AuthorizeSent == sent = <<"mining.subscribe", "mining.authorize">>

\* The polling loop is over, responses being the last batch it received.
PollingOver == AuthorizeSent /\ pc \in {"close", "decode", "return"}

\* query_pool ends without a coinbase having been decoded.
EndsFailed ==
    /\ pc \in {"close", "return"}
    /\ pc = "return" => ret = "False"
    /\ coinbase_hex = None
    /\ tx = None

\* C1: whenever query_pool returns with the connection having been opened,
\* the socket has been closed.
C1_SocketClosedOnReturn ==
    (pc = "return" /\ sock # "none") => sock = "closed"

\* C2: against a pool that never sends a job notification, query_pool
\* eventually returns.
NotifyArrived ==
    \/ notify # None
    \/ HasNotify(results) \/ HasNotify(responses)
    \/ (buf # <<>> /\ buf[1].kind = "json" /\ IsNotify(buf[1].frame))

C2_InspectionTerminates ==
    <>(pc \in {"return", "exit", "crashed"} \/ NotifyArrived)

\* C3: parse returns no transaction for a byte sequence in which a read
\* would go past the end of the buffer: a returned transaction was read
\* from inside the buffer, and every strict prefix of a transaction fails.
C3_TruncatedNeverParsed ==
    (out # None /\ inp.kind \in {"wellformed", "truncated", "corrupt"}) =>
        /\ ~out[1].err => out[1].pos <= Len(inp.bytes)
        /\ inp.kind = "truncated" => out[1].err
        /\ out[1].err => out[1].tx = NoTx

C3_Witness ==
    /\ out # None
    /\ inp.kind = "truncated"
    /\ Len(inp.bytes) > 45
    /\ out[1].err

\* C4 as stated: a rejection received during polling before any job
\* notification makes query_pool return False with no coinbase decoded.
RejectionBeforeAnyJob(rs) ==
    \E i \in 1 .. Len(rs) :
        /\ IsRejection(rs[i])
        /\ \A j \in 1 .. i - 1 : ~IsNotify(rs[j])

C4_RejectionBeforeJobFails ==
    (PollingOver /\ RejectionBeforeAnyJob(responses)) => EndsFailed

\* C4 amended: a rejection received in a batch that carries no job
\* notification ends polling, and query_pool returns False with no coinbase
\* decoded.
C4_RejectionWithoutJobFails ==
    /\ pc = "poll_recv" => ~auth_rejected
    /\ (PollingOver /\ HasRejection(responses) /\ ~HasNotify(responses))
           => EndsFailed

C4_Witness ==
    /\ pc = "return"
    /\ AuthorizeSent
    /\ responses = <<SetDiff, AuthRej>>
    /\ auth_rejected
    /\ attempt = 1
    /\ ret = "False"

\* C5 as stated: a job notification after a rejection is accepted, in the
\* same batch or in a later polling attempt; so a rejection alone ends the
\* polling loop only when no attempt is left.
NotifyAfterRejection(rs) ==
    \E i \in 1 .. Len(rs) : \E j \in i + 1 .. Len(rs) :
        IsRejection(rs[i]) /\ IsNotify(rs[j])

JobDecoded ==
    /\ notify # None
    /\ pc \in {"close", "decode", "return"}
    /\ (pc = "return" /\ notify[1].params \in {"J1", "J2"}) =>
           (ret = "True" /\ coinbase_hex # None /\ tx # None)

C6_ErrorsBecomeOutcomes ==
    /\ pc # "crashed"
    /\ pc = "return" => ret \in {"True", "False"}
    /\ ok + fail = pool - 1
    /\ pc = "exit" => (pool = NPools + 1 /\ ok + fail = NPools)

C6_Witness ==
    /\ mode = "all"
    /\ pc = "exit"
    /\ ok >= 1
    /\ fail >= 1

\* C7: no received line ends the session: a receive goes on, or returns
\* its frames to query_pool.
C7_NoLineIsFatal ==
    [][Receiving => pc' \in {pc, "sub_done", "poll_done"}]_vars

\* C8: subscribe is sent once and before authorize; authorize is sent only
\* with the extra-nonce and its size recorded from an id-1 result.
IsSubscribeResult(r) == r.isdict /\ r.id = 1 /\ r.result.t = "list"

SubscribeOrder ==
    /\ sent \in { <<>>, <<"mining.subscribe">>,
                  <<"mining.subscribe", "mining.authorize">> }
    /\ pc \in {"poll_recv", "poll_done", "close", "decode"} => AuthorizeSent
    /\ Len(sent) = 2 => (extranonce1 # None /\ extranonce2_size # None)
    /\ pc = "authorize" =>
           \E i \in 1 .. Len(responses) :
               /\ IsSubscribeResult(responses[i])
               /\ extranonce1 = Some(responses[i].result.en1)
               /\ extranonce2_size = Some(responses[i].result.size)

\* C8 as stated: no id-1 response carrying an error is followed by the
\* authorize request.
C8_AuthorizeAfterSubscribe ==
    /\ SubscribeOrder
    /\ pc = "authorize" =>
           \A i \in 1 .. Len(responses) :
               ~(responses[i].isdict /\ responses[i].id = 1
                    /\ responses[i].error)

\* C8 amended: no id-1 response carrying an error and no result is
\* followed by the authorize request.
C8_AuthorizeAfterSubscribeResult ==
    /\ SubscribeOrder
    /\ pc = "authorize" =>
           \A i \in 1 .. Len(responses) :
               ~(responses[i].isdict /\ responses[i].id = 1
                    /\ responses[i].error /\ ~Truthy(responses[i].result))

C8_Witness ==
    /\ AuthorizeSent
    /\ pc = "poll_recv"
    /\ extranonce1 = Some(EN_B)
    /\ extranonce2_size = Some(0)

\* C9: the bytes given to the parser are coinbase part 1, the recorded
\* extra-nonce, extranonce2_size zero bytes and coinbase part 2, in this
\* order, and as long as the four together.
LastSubscribeResult(rs) ==
    LET s == SelectSeq(rs, IsSubscribeResult) IN s[Len(s)]

C9_CoinbaseAssembly ==
    /\ pc = "authorize" =>
           /\ extranonce1 = Some(LastSubscribeResult(responses).result.en1)
           /\ extranonce2_size = Some(LastSubscribeResult(responses).result.size)
    /\ coinbase_hex # None =>
           /\ ~fromhex(coinbase_hex[1]).err
           /\ fromhex(coinbase_hex[1]).bytes =
                  fromhex(Job(notify[1].params).cb1).bytes
                      \o fromhex(extranonce1[1]).bytes
                      \o Zeros(extranonce2_size[1])
                      \o fromhex(Job(notify[1].params).cb2).bytes
           /\ Len(fromhex(coinbase_hex[1]).bytes) =
                  Len(fromhex(Job(notify[1].params).cb1).bytes)
                      + Len(fromhex(extranonce1[1]).bytes)
                      + extranonce2_size[1]
                      + Len(fromhex(Job(notify[1].params).cb2).bytes)

C9_Witness ==
    /\ coinbase_hex # None
    /\ extranonce1 = Some(EN_A)
    /\ extranonce2_size = Some(1)
    /\ notify[1].params = "J2"
    /\ ret = "True"

HexOfBytes(f) == hex([i \in 1 .. 32 |-> f[i]])

\* C11 as stated: on the wire-order hash 00010203 04050607 ... 1c1d1e1f the
\* result is the fully byte-reversed string 1f1e1d1c ... 03020100.
C11_FullyByteReversed ==
    (out # None /\ inp.kind = "prevhash" /\ inp.bytes = SequentialHash) =>
        out[1] = HexOfBytes([i \in 1 .. 32 |-> 32 - i])

\* C11, amended: on the wire-order hash 00010203 04050607 ... 1c1d1e1f the
\* result is the eight 4-byte groups in reverse order, the bytes inside each
\* group in their wire order: 1c1d1e1f 18191a1b ... 04050607 00010203.
C11_GroupsReversed ==
    (out # None /\ inp.kind = "prevhash" /\ inp.bytes = SequentialHash) =>
        out[1] = HexOfBytes([i \in 1 .. 32 |->
                                4 * (7 - ((i - 1) \div 4)) + ((i - 1) % 4)])

C11_Witness ==
    /\ out # None
    /\ inp.kind = "prevhash"
    /\ inp.bytes = SequentialHash
    /\ Len(out[1]) = 64
    /\ SubSeq(out[1], 1, 8) = <<1, 12, 1, 13, 1, 14, 1, 15>>

\* The rules of the script classification, on the bytes of a script.
IsP2PKH(s) ==
    /\ Len(s) = 25
    /\ s[1] = 118 /\ s[2] = 169 /\ s[3] = 20
    /\ s[24] = 136 /\ s[25] = 172

IsP2SH(s) == Len(s) = 23 /\ s[1] = 169 /\ s[2] = 20 /\ s[23] = 135

IsOpReturn(s) == Len(s) >= 1 /\ s[1] = 106

IsP2PK(s) ==
    /\ Len(s) \in {35, 67}
    /\ s[Len(s)] = 172
    /\ s[1] = Len(s) - 2

FirstRule(s) ==
    IF s = <<>> THEN "EMPTY"
    ELSE IF IsP2PKH(s) THEN "P2PKH"
    ELSE IF IsP2SH(s) THEN "P2SH"
    ELSE IF IsOpReturn(s) THEN "OP_RETURN"
    ELSE IF IsP2PK(s) THEN "P2PK"
    ELSE "UNKNOWN"

\* The bytes a rule encloses: between prefix and suffix, or after the first
\* byte of a data carrier; the whole script when no rule matches.
Enclosed(s, type) ==
    CASE type = "EMPTY"     -> <<>>
      [] type = "P2PKH"     -> SubSeq(s, 4, 23)
      [] type = "P2SH"      -> SubSeq(s, 3, 22)
      [] type = "OP_RETURN" -> SubSeq(s, 2, Len(s))
      [] type = "P2PK"      -> SubSeq(s, 2, Len(s) - 1)
      [] type = "UNKNOWN"   -> s

\* C12: a script gets the type of the first matching rule in the order
\* EMPTY, P2PKH, P2SH, OP_RETURN, P2PK, else UNKNOWN; the extracted hex is
\* that of exactly the enclosed bytes; and an address pair is produced
\* exactly for P2PKH, P2SH and P2PK, from the enclosed hash or public key.
C12_FirstMatchingRule ==
    (out # None /\ inp.kind = "script") =>
        LET type == FirstRule(inp.bytes)
            body == Enclosed(inp.bytes, type)
        IN  /\ out[1].type = type
            /\ out[1].extra = hex(body)
            /\ (out[1].addr # None) <=> (type \in {"P2PKH", "P2SH", "P2PK"})
            /\ type \in {"P2PKH", "P2SH"} =>
                   /\ out[1].addr[1].script_type = type
                   /\ out[1].addr[1].hash160 = body
            /\ type = "P2PK" =>
                   /\ out[1].addr[1].script_type = "P2PKH"
                   /\ out[1].addr[1].pubkey = body

C12_Witness ==
    /\ out # None
    /\ inp.kind = "script"
    /\ IsP2PKH(inp.bytes)
    /\ out[1].type = "P2PKH"
    /\ out[1].addr # None
    /\ Len(out[1].extra) = 40

\* Byte 0 of s is a push length between 1 and 8 and at least that many
\* bytes follow it.
HeightPushed(s) ==
    /\ Len(s) >= 1
    /\ s[1] >= 1
    /\ s[1] <= 8
    /\ Len(s) - 1 >= s[1]

\* C13: an unlock script yields a height exactly when byte 0 is a push length
\* h with 1 <= h <= 8 followed by at least h bytes; the height is then the
\* little-endian value of bytes 1..1+h (03 22 0c 0a gives 0x0a0c22 = 658466);
\* in every other case the height is absent.
C13_HeightExactlyWhenPushed ==
    (out # None /\ inp.kind = "script_sig") =>
        /\ (out[1] # None) <=> HeightPushed(inp.bytes)
        /\ out[1] # None =>
               \A i \in 1 .. 8 :
                   NumByte(out[1][1], i) =
                       IF i <= inp.bytes[1] THEN inp.bytes[1 + i] ELSE 0
        /\ SubSeq(inp.bytes, 1, Min(4, Len(inp.bytes))) = <<3, 34, 12, 10>> =>
               out[1] = Some(<<658466, 0, 0>>)

C13_Witness ==
    /\ out # None
    /\ inp.kind = "script_sig"
    /\ inp.bytes = <<3, 34, 12, 10, 47, 80, 47>>
    /\ out[1] = Some(<<658466, 0, 0>>)

\* The low 23 bits of a compact target of eight hex digits, and its sign
\* flag (bit 23).
CompactCoefficient(h) ==
    1048576 * (h[3] % 8) + 65536 * h[4] + 4096 * h[5] + 256 * h[6]
        + 16 * h[7] + h[8]

CompactSign(h) == h[3] >= 8

\* C14: whenever the target is <= 0, that is whenever the coefficient is
\* zero or the sign bit is set, for every exponent 0..255 including those
\* below 3, nbits_to_difficulty returns ("N/A", 0.0) and does not fail.
C14_NonPositiveTargetIsNA ==
    (/\ out # None
     /\ inp.kind = "nbits"
     /\ (CompactCoefficient(inp.bytes) = 0 \/ CompactSign(inp.bytes))) =>
        /\ ~out[1].err
        /\ out[1].str = "N/A"
        /\ out[1].raw = "0.0"

\* The index of the first job notification of a batch that holds one.
FirstNotify(rs) ==
    CHOOSE i \in 1 .. Len(rs) :
        IsNotify(rs[i]) /\ \A j \in 1 .. (i - 1) : ~IsNotify(rs[j])

\* C15: the job that is decoded is the first job notification received: once
\* polling is over with a job, the job kept for decoding is the first
\* mining.notify frame of the batch that ended the polling, whatever frames
\* follow it in that batch.
C15_FirstNotifyIsDecoded ==
    (PollingOver /\ AllObjects(responses) /\ notify # None) =>
        notify[1] = responses[FirstNotify(responses)]

\* Nothing of an earlier call is left when query_pool is entered.
CallStartsFresh ==
    /\ sock = "none" /\ sent = <<>> /\ buf = <<>> /\ results = <<>>
    /\ responses = <<>> /\ extranonce1 = None /\ extranonce2_size = None
    /\ notify = None /\ pool_diff = None /\ auth_rejected = FALSE
    /\ attempt = 0 /\ coinbase_hex = None /\ tx = None /\ ret = "none"

\* C16: pool inspections share no mutable state.  The process-wide values
\* stay what they were before the first query; every call of query_pool
\* starts from the same state whatever the calls before it received and
\* returned; and between its entry and its return a call changes none of
\* main's counters, which main updates from the call's return value alone.
C16_NoSharedMutableState ==
    /\ [](config = Config)
    /\ [](pc = "connect" => CallStartsFresh)
    /\ [][pc \notin {"main", "return"} => UNCHANGED <<mode, pool, ok, fail>>]_vars
    /\ [][(pc = "return" /\ pc' = "main") =>
              /\ pool' = pool + 1
              /\ ok' + fail' = ok + fail + 1
              /\ (ok' = ok + 1) <=> (ret = "True")]_vars

C16_Witness ==
    /\ pool = 2
    /\ ok = 1
    /\ pc = "connect"
    /\ config = Config
    /\ CallStartsFresh

\* An authorize success response or a difficulty notification.
IsAuxiliary(r) ==
    /\ r.isdict
    /\ \/ r.method = "mining.set_difficulty"
       \/ /\ r.method # "mining.notify"
          /\ r.id = 2
          /\ r.result.t = "true"

\* A polling batch, about to be dispatched, that holds such frames only.
AuxiliaryBatch ==
    /\ pc = "poll_done"
    /\ responses # <<>>
    /\ \A i \in 1 .. Len(responses) : IsAuxiliary(responses[i])

RejectionAfterNotify(rs) ==
    \E i \in 1 .. Len(rs) : \E j \in i + 1 .. Len(rs) :
        IsNotify(rs[i]) /\ IsRejection(rs[j])

BytesOfHash(h) == [i \in 1 .. 32 |-> 16 * h[2 * i - 1] + h[2 * i]]

\* The bytes of every 4-byte group reversed, the groups kept in place.
GroupsByteReversed(b) ==
    [i \in 1 .. 32 |-> b[4 * ((i - 1) \div 4) + (4 - ((i - 1) % 4))]]

\* The whole 32-byte sequence reversed.
WholeReversed(b) == [i \in 1 .. 32 |-> b[33 - i]]

\* C19: for a hash of 64 hex characters the result is that of reversing the
\* bytes inside each of the eight 4-byte groups, concatenating the groups
\* and reversing the whole 32 bytes; an input of any other length is
\* returned unchanged.
C19_GroupSwapThenReverse ==
    (out # None /\ inp.kind = "prevhash") =>
        IF Len(inp.bytes) = 64
        THEN out[1] = HexOfBytes(WholeReversed(GroupsByteReversed(
                          BytesOfHash(inp.bytes))))
        ELSE out[1] = inp.bytes

C19_Witness ==
    /\ out # None
    /\ inp.kind = "prevhash"
    /\ Len(inp.bytes) = 64
    /\ inp.bytes # SequentialHash
    /\ out[1] # inp.bytes
    /\ SubSeq(out[1], 1, 8) = SubSeq(inp.bytes, 57, 64)

\* The bits of a sequence of w-bit values, most significant first.
BitsOf(vals, w) ==
    [k \in 1 .. Len(vals) * w |->
        (vals[((k - 1) \div w) + 1] \div Pow2(w - 1 - ((k - 1) % w))) % 2]

CeilDiv(a, b) == (a + b - 1) \div b

\* C20: with padding _convert_bits returns ceil(n*from/to) values below
\* 2^to whose bits are the input bits followed by zero bits only; without
\* padding it returns floor(n*from/to) values whose bits are a prefix of the
\* input bits.  21 bytes repacked from 8 to 5 bits are 34 values, and an
\* encoded address is 34 payload digits followed by 8 checksum digits.
C20_RepackKeepsBits ==
    /\ (out # None /\ inp.kind = "bits") =>
           LET total  == Len(inp.bytes) * inp.from_bits
               inBits == BitsOf(inp.bytes, inp.from_bits)
               ouBits == BitsOf(out[1], inp.to_bits)
           IN  /\ Len(out[1]) = IF inp.pad
                                THEN CeilDiv(total, inp.to_bits)
                                ELSE total \div inp.to_bits
               /\ \A i \in 1 .. Len(out[1]) :
                      out[1][i] >= 0 /\ out[1][i] < Pow2(inp.to_bits)
               /\ \A k \in 1 .. Len(ouBits) :
                      ouBits[k] = IF k <= total THEN inBits[k] ELSE 0
               /\ (Len(inp.bytes) = 21 /\ inp.from_bits = 8 /\ inp.pad) =>
                      Len(out[1]) = 34
    /\ (out # None /\ inp.kind = "hash160") =>
           /\ out[1].prefix = "bitcoincash"
           /\ Len(out[1].chars) = 34 + 8
           /\ LET digits == _convert_bits(
                                <<IF inp.script_type = "P2PKH" THEN 0 ELSE 8>>
                                    \o inp.bytes, 8, 5, TRUE)
              IN  /\ Len(digits) = 34
                  /\ \A i \in 1 .. 34 :
                         out[1].chars[i] = CashAddrCharset[digits[i] + 1]

C20_Witness ==
    /\ out # None
    /\ inp.kind = "bits"
    /\ Len(inp.bytes) = 21
    /\ inp.bytes[21] = 255
    /\ inp.pad
    /\ Len(out[1]) = 34
    /\ out[1][34] = 28

\* The number of elements equal to v at the head of s.
LeadingCount(s, v) ==
    Cardinality({ i \in 1 .. Len(s) : \A j \in 1 .. i : s[j] = v })

DigitOf(c) == CHOOSE d \in 0 .. 57 : Base58Alphabet[d + 1] = c

\* 58 * n + carry on the big-endian bytes n, from byte i down; the width is
\* kept.
RECURSIVE MulAddLoop(_, _, _, _)
MulAddLoop(n, i, carry, acc) ==
    IF i = 0 THEN acc
    ELSE CHOOSE x \in
             { MulAddLoop(t.n, t.i, t.v \div 256, <<t.v % 256>> \o t.acc) :
                 t \in { [n |-> n, i |-> i - 1, v |-> 58 * n[i] + carry,
                          acc |-> acc] } } :
             TRUE

\* The value of base-58 digit characters, from character i on, as
\* big-endian bytes of the width of n.
RECURSIVE Base58Value(_, _, _)
Base58Value(chars, i, n) ==
    IF i > Len(chars) THEN n
    ELSE CHOOSE x \in
             { Base58Value(t.chars, t.i, t.n) :
                 t \in { [chars |-> chars, i |-> i + 1,
                          n |-> MulAddLoop(n, Len(n), DigitOf(chars[i]), <<>>)] } } :
             TRUE

\* Decoding: one zero byte per leading "1", then the bytes of the value of
\* the remaining digits without leading zero bytes.
FromBase58(chars) ==
    CHOOSE x \in
        { Zeros(LeadingCount(chars, "1"))
              \o SubSeq(v, LeadingCount(v, 0) + 1, Len(v)) :
            v \in { Base58Value(chars, 1, Zeros(Len(chars))) } } :
        TRUE

\* C21: on a payload followed by its four checksum bytes the encoder emits
\* one "1" per leading zero byte, then the base-58 digits of the big-endian
\* integer with no leading zero digit (none at all when the integer is 0);
\* decoding the output from base 58 and restoring one zero byte per leading
\* "1" gives the combined bytes back.
C21_Base58RoundTrip ==
    (out # None /\ inp.kind = "base58") =>
        LET data   == inp.bytes \o inp.checksum
            z      == LeadingCount(data, 0)
            digits == SubSeq(out[1], z + 1, Len(out[1]))
        IN  /\ Len(out[1]) >= z
            /\ \A i \in 1 .. z : out[1][i] = "1"
            /\ \A i \in 1 .. Len(digits) :
                   \E d \in 0 .. 57 : digits[i] = Base58Alphabet[d + 1]
            /\ (digits = <<>>) <=> (z = Len(data))
            /\ digits # <<>> => digits[1] # "1"
            /\ FromBase58(out[1]) = data

C21_Witness ==
    /\ out # None
    /\ inp.kind = "base58"
    /\ inp.bytes = <<0, 0>>
    /\ inp.checksum = <<0, 58, 0, 0>>
    /\ Len(out[1]) > 3
    /\ SubSeq(out[1], 1, 3) = <<"1", "1", "1">>
    /\ out[1][4] # "1"
    /\ FromBase58(out[1]) = <<0, 0, 0, 58, 0, 0>>

\* The first bytes of a JSON frame are waiting for the rest of their line.
FrameHeadBuffered == buf # <<>> /\ buf[1].kind = "json"

\* Bytes received are kept until their line is complete: the buffer is
\* emptied only by the frame it holds being appended to the results.
NoBytesDropped ==
    [][(FrameHeadBuffered /\ buf' = <<>>) =>
           results' = Append(results, buf[1].frame)]_vars

\* A job notification among the frames received is dispatched before the
\* session goes on without those frames.
NoNotifyLost ==
    [][(/\ AllObjects(responses)
        /\ HasNotify(responses)
        /\ ~HasNotify(responses')
        /\ pc' \in {"poll_recv", "poll_done", "close", "decode"}) =>
           notify' # None]_vars

\* C22: every frame the pool sends between the subscribe request and the
\* end of polling is parsed and dispatched, also when its bytes arrive
\* across two receive calls: no received bytes are dropped between receive
\* calls, and a job notification that arrives together with the subscribe
\* response is not lost.
C22_EveryFrameDispatched == NoBytesDropped /\ NoNotifyLost

====
